---- MODULE Spec2Model ----
(***************************************************************************)
(* A model of model-dashboard: the object-store backed model repository    *)
(* (connection.py, models.py) and the credential / API-token store         *)
(* (auth.py, scripts/manage_users.py).                                     *)
(*                                                                         *)
(* Text is modelled as a sequence of atoms (a word, "-", " "), so that     *)
(* concatenation is \o and startswith('-') looks at the first atom.  A     *)
(* Python dict is a sequence of <<key, value>> pairs in insertion order.   *)
(* An object key "network_type/name" is the sequence of its '/'-separated  *)
(* segments.                                                               *)
(***************************************************************************)
EXTENDS Integers, Sequences, FiniteSets, TLC

VARIABLES
    bucket,      \* the object store: key -> body
    _models,     \* ModelDB._models: name -> descriptor or None
    users,       \* table users: username -> row
    api_tokens,  \* table api_tokens: a set of rows
    now,         \* datetime.utcnow(), in days
    issued,      \* how many raw tokens secrets.token_urlsafe has produced
    created,     \* history: username -> the password create_local_user stored,
                 \* while the row has it
    lastOp,      \* the last call, its arguments and what it returned
    peer,        \* the ModelDB of another process over the same bucket: its
                 \* _models, and whether it has loaded them
    refreshing,  \* an update_models() under way: the objects still to load
    adding,      \* per caller, an add_model() between its check and its put
    issuing      \* a create_api_token() between its SELECT and its INSERT

repoVars == <<bucket, _models>>
authVars == <<users, api_tokens, now, issued, created>>
procVars == <<peer, refreshing, adding, issuing>>
vars == <<bucket, _models, users, api_tokens, now, issued, created, lastOp,
          peer, refreshing, adding, issuing>>

\* ------------------------------------------------------------- bounds
\* Objects the bucket holds at once.
MaxObjects == 2

\* ------------------------------------------------------------ strings
\* Every string the model compares, in Python's str order (code points).
StrOrder ==
    <<"<int>", "<missing>", "MIST", "TotalSegmentatorV2", "a", "b", "bogus",
      "nnUNet", "nnUNet_v2", "readme", "tensorflow", "totalsegmentator",
      "vista3d">>

StrRank(s) == CHOOSE i \in 1..Len(StrOrder) : StrOrder[i] = s

\* models.py NetworkType: the closed set of architectures.
NetworkType ==
    {"nnUNet", "nnUNet_v2", "tensorflow", "totalsegmentator",
     "TotalSegmentatorV2", "MIST", "vista3d"}

\* The model names and network types the callers use.
Names == {"a", "b"}
Types == {"nnUNet", "MIST"}

\* ------------------------------------------------------ small helpers
Put(f, k, v) == [x \in (DOMAIN f) \cup {k} |-> IF x = k THEN v ELSE f[x]]
Remove(f, k) == [x \in (DOMAIN f) \ {k} |-> f[x]]
Range(f) == {f[x] : x \in DOMAIN f}

None == [kind |-> "none"]
Some(m) == [kind |-> "model", m |-> m]

\* Python dicts as sequences of <<key, value>> pairs.
DictHas(d, k) == \E i \in 1..Len(d) : d[i][1] = k
DictGet(d, k) == d[CHOOSE i \in 1..Len(d) : d[i][1] = k][2]

\* ------------------------------------------------- descriptor (models.py)
DashDash == <<"-", "-">>
Space == <<" ">>

StrVal(s) == [t |-> "str", s |-> s]
BoolVal(b) == [t |-> "bool", b |-> b]

\* f'{v}' of a mapping value: a str is itself, a bool prints True / False.
Format(v) == IF v.t = "bool" THEN (IF v.b THEN <<"True">> ELSE <<"False">>) ELSE v.s

\* key.startswith('-')
StartsWithDash(key) == Len(key) > 0 /\ key[1] = "-"

\* One element of `args`: models.py lines 74-78.
ArgOf(key, v) ==
    LET k == IF StartsWithDash(key) THEN key ELSE DashDash \o key
    IN  IF v.t = "bool" /\ v.b THEN k ELSE k \o Space \o Format(v)

\* ' '.join(parts)
RECURSIVE Join(_)
Join(parts) ==
    IF Len(parts) = 0 THEN <<>>
    ELSE IF Len(parts) = 1 THEN parts[1]
    ELSE parts[1] \o Space \o Join(Tail(parts))

\* The inference_args string synthesized from the mapping: models.py line 79.
DerivedArgs(mapping) ==
    Space \o Join([i \in 1..Len(mapping) |-> ArgOf(mapping[i][1], mapping[i][2])])

\* InferenceModel.validate_fields, the mode='after' validator.
validate_fields(m) ==
    LET alias == IF m.alias = "" THEN m.name ELSE m.alias
        args  == IF m.inference_args = <<>>
                    /\ DictHas(m.inference_information, "inference_args")
                 THEN DerivedArgs(DictGet(m.inference_information, "inference_args"))
                 ELSE m.inference_args
    IN  [m EXCEPT !.alias = alias, !.inference_args = args]

\* What a caller's dict holds for 'name' when the key is not there, and when
\* its value is an int (pydantic does not coerce an int to str).
Missing == "<missing>"
NotAString == "<int>"

\* The schema of InferenceModel: name is a required str, network_type a
\* required member of the enum.
SchemaOk(raw) ==
    /\ raw.name \notin {Missing, NotAString}
    /\ raw.network_type \in NetworkType

\* InferenceModel(**raw): field validation, then validate_fields.
InferenceModel(raw) == validate_fields(raw)

\* Decimal text of a small int, as JSON writes a non-string object key.
Digits == <<"0", "1", "2", "3", "4", "5", "6", "7", "8", "9">>
IntStr(n) == Digits[n + 1]

IntKey(n) == [t |-> "int", v |-> n]
StrKey(s) == [t |-> "str", s |-> s]

\* A JSON object key is always a string.
JsonKey(k) == IF k.t = "int" THEN StrKey(IntStr(k.v)) ELSE k
JsonKeys(d) == [i \in 1..Len(d) |-> <<JsonKey(d[i][1]), d[i][2]>>]

\* MinioModel.to_bytes: model_dump_json().encode('utf-8'), never empty.
to_bytes(m) == [kind |-> "json", doc |-> [m EXCEPT !.contour_names = JsonKeys(@)]]

\* Object bodies that did not come from to_bytes: a zero-byte object, and
\* bytes that are not a JSON document of the schema.
EmptyBody == [kind |-> "empty"]
GarbageBody == [kind |-> "garbage"]

\* MinioModel.load(bytes): json.loads, then model_validate (which runs
\* validate_fields again).  Union[int, str] keeps a str key a str.
Loadable(data) == data.kind = "json" /\ SchemaOk(data.doc)
load(data) == InferenceModel(data.doc)

\* ------------------------------------------------------------- inputs
\* contour_names as pages/create.py ({'1': name}) and utils.py
\* ({int(k): str(v)}) build it.
ContourChoices == {<<>>, << <<IntKey(1), "liver">> >>}

RawModel(name, nt, contour) ==
    [name |-> name, network_type |-> nt, enabled |-> FALSE, alias |-> "",
     description |-> "", contour_names |-> contour,
     inference_information |-> <<>>, inference_args |-> <<>>,
     create_date |-> "", last_modified_date |-> "", version |-> ""]

RawInputs == {RawModel(n, t, c) : n \in Names, t \in Types, c \in ContourChoices}

\* Dicts that violate the schema: no name, a name that is no str, a
\* network_type outside the enum.
BadInputs ==
    {RawModel(Missing, "nnUNet", <<>>), RawModel(NotAString, "nnUNet", <<>>),
     RawModel("a", "bogus", <<>>)}

\* --------------------------------------------- repository (connection.py)
\* path = f'{network_type}/{name}'
Path(network_type, name) == <<network_type, name>>

\* Keys another client of the bucket may write that are no 'type/name'.
BadKeys == {<<"readme">>}
Keys == {Path(t, n) : t \in Types, n \in Names}

\* The order in which the store lists keys: ascending by key.
KeyLess(k1, k2) ==
    \/ StrRank(k1[1]) < StrRank(k2[1])
    \/ /\ k1[1] = k2[1]
       /\ \/ Len(k1) < Len(k2)
          \/ Len(k1) = Len(k2) /\ Len(k1) > 1 /\ StrRank(k1[2]) < StrRank(k2[2])

RECURSIVE ListOrder(_)
ListOrder(S) ==
    IF S = {} THEN <<>>
    ELSE LET k == CHOOSE x \in S : \A y \in S \ {x} : KeyLess(x, y)
         IN  <<k>> \o ListOrder(S \ {k})

\* ModelDB.get_objects: every object of the bucket, in listing order.
get_objects(b) == ListOrder(DOMAIN b)

\* ModelDB.object_exists: stat_object succeeds and the size is not zero.
\* storeFails: the calls this operation makes to the store raise.
object_exists(b, path, storeFails) ==
    ~storeFails /\ path \in DOMAIN b /\ b[path].kind # "empty"

\* get_model that answers an empty object with a default descriptor.
get_model_default_for_empty(b, name, network_type, storeFails) ==
    LET path == Path(network_type, name)
    IN  IF ~storeFails /\ path \in DOMAIN b /\ b[path].kind = "empty"
        THEN Some(InferenceModel(RawModel(name, network_type, <<>>)))
        ELSE IF object_exists(b, path, storeFails) /\ Loadable(b[path])
        THEN Some(load(b[path]))
        ELSE None

\* ModelDB.get_model: None when the object is absent, empty or unreadable.
get_model(b, name, network_type, storeFails) ==
    LET path == Path(network_type, name)
    IN  IF object_exists(b, path, storeFails) /\ Loadable(b[path])
        THEN Some(load(b[path]))
        ELSE None

\* ModelDB.update_models: the loop over the listed objects.
RECURSIVE LoadAll(_, _, _)
LoadAll(b, objs, cache) ==
    IF Len(objs) = 0 THEN cache
    ELSE LET o == objs[1]
         IN  IF Len(o) # 2
             THEN LoadAll(b, Tail(objs), cache)
             ELSE LoadAll(b, Tail(objs), Put(cache, o[2], get_model(b, o[2], o[1], FALSE)))

update_models(b) == LoadAll(b, get_objects(b), <<>>)

\* ModelDB.models: loads when the cache is empty.
models(b, cache) == IF DOMAIN cache = {} THEN update_models(b) ELSE cache

\* sorted(..., key=lambda x: (x.network_type, x.name))
ModelLess(x, y) ==
    \/ StrRank(x.network_type) < StrRank(y.network_type)
    \/ x.network_type = y.network_type /\ StrRank(x.name) < StrRank(y.name)

RECURSIVE Sorted(_)
Sorted(S) ==
    IF S = {} THEN <<>>
    ELSE LET m == CHOOSE x \in S : \A y \in S \ {x} : ModelLess(x, y)
         IN  <<m>> \o Sorted(S \ {m})

\* ModelDB.model_list over a cache: x.network_type of a None entry raises.
model_list(cache) ==
    IF \E n \in DOMAIN cache : cache[n].kind = "none"
    THEN [kind |-> "raise", ok |-> FALSE]
    ELSE [kind |-> "list", l |-> Sorted({cache[n].m : n \in DOMAIN cache})]

\* ----------------------------------------------- credentials (auth.py)
\* Days a token lives: API_TOKEN_EXPIRY_DAYS.
API_TOKEN_EXPIRY_DAYS == 30

\* Clock steps of a run.
MaxTicks == 2
\* Raw tokens a run issues.
MaxTokens == 2

Usernames == {"ann", "bob"}
Passwords == {"pw1", "pw2"}
\* A raw token is the number of its draw: secrets.token_urlsafe never repeats.
RawTokens == 1..MaxTokens

\* hash_password / hash_token: SHA-256, one-way and collision free.
hash_password(password) == <<"sha256", password>>
hash_token(token) == <<"sha256", token>>

\* The User dataclass an authentication returns.
User(username, display_name, email, auth_type) ==
    [username |-> username, display_name |-> display_name, email |-> email,
     auth_type |-> auth_type]

Rejected(msg) == [kind |-> "auth", ok |-> FALSE, msg |-> msg]
Accepted(user) == [kind |-> "auth", ok |-> TRUE, msg |-> "", user |-> user]

\* authenticate_local that looks the row up by username alone.
authenticate_local_any_password(u, username, password) ==
    IF username \notin DOMAIN u
    THEN Rejected("Invalid username or password")
    ELSE IF ~u[username].is_active
    THEN Rejected("User account is disabled")
    ELSE Accepted(User(username, u[username].display_name, u[username].email, "local"))

\* authenticate_local that does not look at is_active.
authenticate_local_ignores_active(u, username, password) ==
    IF ~(username \in DOMAIN u /\ u[username].password_hash = hash_password(password))
    THEN Rejected("Invalid username or password")
    ELSE Accepted(User(username, u[username].display_name, u[username].email, "local"))

\* authenticate_local that looks at the account before the password.
authenticate_local_status_first(u, username, password) ==
    IF username \notin DOMAIN u
    THEN Rejected("Invalid username or password")
    ELSE IF ~u[username].is_active
    THEN Rejected("User account is disabled")
    ELSE IF u[username].password_hash # hash_password(password)
    THEN Rejected("Invalid username or password")
    ELSE Accepted(User(username, u[username].display_name, u[username].email, "local"))

\* authenticate_local: SELECT ... WHERE username = ? AND password_hash = ?
authenticate_local(u, username, password) ==
    IF ~(username \in DOMAIN u /\ u[username].password_hash = hash_password(password))
    THEN Rejected("Invalid username or password")
    ELSE IF ~u[username].is_active
    THEN Rejected("User account is disabled")
    ELSE Accepted(User(username, u[username].display_name, u[username].email, "local"))

\* LDAP_REQUIRED_GROUP as configured by default, and another group.
RequiredGroup == "cn=model-dashboard-users,ou=groups,dc=example,dc=com"
OtherGroup == "cn=staff,ou=groups,dc=example,dc=com"

\* What the directory does with one sign-in.  ldap3: the library imports.
\* bind: "ok"; "refused", the server refuses the credentials, on which
\* Connection(..., auto_bind=True) raises LDAPBindError; "rebind_refused",
\* the automatic bind is accepted and the conn.bind() after it is not;
\* "unreachable", the server cannot be reached or answers garbage, which
\* raises.  found / groups: the search result.  required: LDAP_REQUIRED_GROUP.
DirOutcome(ldap3, bind, found, groups, required) ==
    [ldap3 |-> ldap3, bind |-> bind, found |-> found, groups |-> groups,
     required |-> required]

DirOutcomes ==
    {DirOutcome(FALSE, "ok", TRUE, {RequiredGroup}, RequiredGroup)}
    \cup {DirOutcome(TRUE, b, TRUE, {RequiredGroup}, RequiredGroup) :
             b \in {"refused", "rebind_refused", "unreachable"}}
    \cup {DirOutcome(TRUE, "ok", f, g, r) :
             f \in BOOLEAN, g \in {{OtherGroup}, {OtherGroup, RequiredGroup}},
             r \in {"", RequiredGroup}}

\* authenticate_ldap(username, password) against a directory that behaves as
\* d says.
authenticate_ldap(d, username, password) ==
    IF ~d.ldap3
    THEN Rejected("LDAP authentication is not available")
    ELSE IF d.bind \in {"refused", "unreachable"}
    THEN Rejected("Authentication error")
    ELSE IF d.bind = "rebind_refused"
    THEN Rejected("Invalid username or password")
    ELSE IF ~d.found
    THEN Rejected("User not found")
    ELSE IF d.required # "" /\ d.required \notin d.groups
    THEN Rejected("You are not authorized to access this application")
    ELSE Accepted(User(username, username, "", "ldap"))

\* The rejection of an auth_type that is neither 'ldap' nor 'local'.
UnknownType(auth_type) ==
    [kind |-> "auth", ok |-> FALSE, msg |-> "Unknown authentication type",
     mode |-> auth_type]

\* authenticate that takes every other auth_type for 'local'.
authenticate_falls_back(u, d, username, password, auth_type) ==
    IF auth_type = "ldap"
    THEN authenticate_ldap(d, username, password)
    ELSE authenticate_local(u, username, password)

\* authenticate(username, password, auth_type)
authenticate(u, d, username, password, auth_type) ==
    IF auth_type = "ldap"
    THEN authenticate_ldap(d, username, password)
    ELSE IF auth_type = "local"
    THEN authenticate_local(u, username, password)
    ELSE UnknownType(auth_type)

\* The row validate_api_token selects: the token JOIN its active owner.
TokenRows(u, toks, token) ==
    {t \in toks : /\ t.token_hash = hash_token(token)
                  /\ t.username \in DOMAIN u
                  /\ u[t.username].is_active}

\* validate_api_token without the JOIN on the active owner.
validate_api_token_any_owner(u, toks, clock, token, updateFails) ==
    LET rows == {t \in toks : t.token_hash = hash_token(token)}
    IN  IF rows = {} THEN Rejected("Invalid API token")
        ELSE LET t == CHOOSE r \in rows : TRUE
             IN  IF clock > t.expires_at THEN Rejected("API token has expired")
                 ELSE IF updateFails THEN Rejected("Token validation error")
                 ELSE Accepted(User(t.username, "", "", "api_token"))

\* validate_api_token that compares the clock with the creation time.
validate_api_token_wrong_expiry(u, toks, clock, token, updateFails) ==
    LET rows == TokenRows(u, toks, token)
    IN  IF rows = {} THEN Rejected("Invalid API token")
        ELSE LET t == CHOOSE r \in rows : TRUE
             IN  IF clock > t.created_at THEN Rejected("API token has expired")
                 ELSE IF updateFails THEN Rejected("Token validation error")
                 ELSE Accepted(User(t.username, u[t.username].display_name,
                                    u[t.username].email, "api_token"))

\* validate_api_token; updateFails: the UPDATE of last_used_at raises.
validate_api_token(u, toks, clock, token, updateFails) ==
    LET rows == TokenRows(u, toks, token)
    IN  IF rows = {} THEN Rejected("Invalid API token")
        ELSE LET t == CHOOSE r \in rows : TRUE
             IN  IF clock > t.expires_at THEN Rejected("API token has expired")
                 ELSE IF updateFails THEN Rejected("Token validation error")
                 ELSE Accepted(User(t.username, u[t.username].display_name,
                                    u[t.username].email, "api_token"))

NoArg == [name |-> "", network_type |-> "", overwrite |-> FALSE, storeFails |-> FALSE]
RepoArg(name, network_type, overwrite, storeFails) ==
    [name |-> name, network_type |-> network_type, overwrite |-> overwrite,
     storeFails |-> storeFails]
\* What a call that raised left: the exception went to the caller.
Raised == [kind |-> "raise", ok |-> FALSE]
Unit == [kind |-> "unit"]

\* Who calls add_model at the same time.
Callers == {1, 2}

\* No call under way.
Idle == [at |-> "idle"]

Init ==
    /\ peer = [_models |-> <<>>, loaded |-> FALSE]
    /\ refreshing = Idle
    /\ adding = [c \in Callers |-> Idle]
    /\ issuing = Idle
    /\ bucket = <<>>
    /\ _models = <<>>
    /\ users = <<>>
    /\ api_tokens = {}
    /\ now = 0
    /\ issued = 0
    /\ created = <<>>
    /\ lastOp = [op |-> "init", arg |-> NoArg, res |-> Unit]

\* ------------------------------------------------- repository operations
\* The bucket holds at most MaxObjects objects.
HasRoom(k) == k \in DOMAIN bucket \/ Cardinality(DOMAIN bucket) < MaxObjects

\* What add_model returned (or raised), with the descriptor it was about;
\* existed records whether the call met an object at the key.
AddResult(kind, ok, wrote, m) ==
    [kind |-> kind, ok |-> ok, wrote |-> wrote, m |-> m,
     existed |-> Path(m.network_type, m.name) \in DOMAIN bucket]

\* add_model without its early return: it writes whatever the key holds.
add_model_always_writes(raw, overwrite, storeFails) ==
    LET arg == RepoArg(raw.name, raw.network_type, overwrite, storeFails)
    IN  IF ~SchemaOk(raw) \/ storeFails
        THEN /\ lastOp' = [op |-> "add_model", arg |-> arg,
                           res |-> AddResult("raise", FALSE, FALSE, raw)]
             /\ UNCHANGED <<bucket, _models>>
        ELSE LET m == InferenceModel(raw)
                 path == Path(m.network_type, m.name)
             IN  /\ HasRoom(path)
                 /\ bucket' = Put(bucket, path, to_bytes(m))
                 /\ _models' = Put(_models, m.name, Some(m))
                 /\ lastOp' = [op |-> "add_model", arg |-> arg,
                               res |-> AddResult("bool", TRUE, TRUE, m)]

\* add_model that writes the object and forgets the cache.
add_model_forgets_cache(raw, overwrite, storeFails) ==
    LET arg == RepoArg(raw.name, raw.network_type, overwrite, storeFails)
    IN  IF ~SchemaOk(raw) \/ storeFails
        THEN /\ lastOp' = [op |-> "add_model", arg |-> arg,
                           res |-> AddResult("raise", FALSE, FALSE, raw)]
             /\ UNCHANGED <<bucket, _models>>
        ELSE LET m == InferenceModel(raw)
                 path == Path(m.network_type, m.name)
             IN  IF ~overwrite /\ object_exists(bucket, path, storeFails)
                 THEN /\ lastOp' = [op |-> "add_model", arg |-> arg,
                                    res |-> AddResult("bool", TRUE, FALSE, m)]
                      /\ UNCHANGED <<bucket, _models>>
                 ELSE /\ HasRoom(path)
                      /\ bucket' = Put(bucket, path, to_bytes(m))
                      /\ _models' = _models
                      /\ lastOp' = [op |-> "add_model", arg |-> arg,
                                    res |-> AddResult("bool", TRUE, TRUE, m)]

\* add_model that takes the dict as it is, without the schema.
add_model_unvalidated(raw, overwrite, storeFails) ==
    LET arg == RepoArg(raw.name, raw.network_type, overwrite, storeFails)
        m == validate_fields(raw)
        path == Path(m.network_type, m.name)
    IN  IF storeFails
        THEN /\ lastOp' = [op |-> "add_model", arg |-> arg,
                           res |-> AddResult("raise", FALSE, FALSE, raw)]
             /\ UNCHANGED <<bucket, _models>>
        ELSE /\ HasRoom(path)
             /\ bucket' = Put(bucket, path, to_bytes(m))
             /\ _models' = Put(_models, m.name, Some(m))
             /\ lastOp' = [op |-> "add_model", arg |-> arg,
                           res |-> AddResult("bool", TRUE, TRUE, m)]

\* ModelDB.add_model(model, overwrite).  InferenceModel(**model) raises on a
\* dict that violates the schema; put_object is not inside a try, so its
\* exception goes to the caller.
add_model(raw, overwrite, storeFails) ==
    LET arg == RepoArg(raw.name, raw.network_type, overwrite, storeFails)
    IN  IF ~SchemaOk(raw)
        THEN /\ lastOp' = [op |-> "add_model", arg |-> arg,
                           res |-> AddResult("raise", FALSE, FALSE, raw)]
             /\ UNCHANGED <<bucket, _models>>
        ELSE LET m == InferenceModel(raw)
                 path == Path(m.network_type, m.name)
             IN  IF ~overwrite /\ object_exists(bucket, path, storeFails)
                 THEN /\ lastOp' = [op |-> "add_model", arg |-> arg,
                                    res |-> AddResult("bool", TRUE, FALSE, m)]
                      /\ UNCHANGED <<bucket, _models>>
                 ELSE IF storeFails
                 THEN /\ lastOp' = [op |-> "add_model", arg |-> arg,
                                    res |-> AddResult("raise", FALSE, FALSE, m)]
                      /\ UNCHANGED <<bucket, _models>>
                 ELSE /\ HasRoom(path)
                      /\ bucket' = Put(bucket, path, to_bytes(m))
                      /\ _models' = Put(_models, m.name, Some(m))
                      /\ lastOp' = [op |-> "add_model", arg |-> arg,
                                    res |-> AddResult("bool", TRUE, TRUE, m)]

AddModel ==
    /\ \/ \E raw \in RawInputs, overwrite \in BOOLEAN, storeFails \in BOOLEAN :
             add_model(raw, overwrite, storeFails)
       \/ \E raw \in BadInputs, overwrite \in BOOLEAN :
             add_model(raw, overwrite, FALSE)
    /\ UNCHANGED <<authVars, procVars>>

\* What delete_model returned; existed and cached record what the call met:
\* an object at the key, a cache entry of the name.
DeleteResult(ok, existed, cached) ==
    [kind |-> "bool", ok |-> ok, existed |-> existed, cached |-> cached]

\* delete_model that reports success whatever remove_object did.
delete_model_hides_error(name, network_type, storeFails) ==
    LET path == Path(network_type, name)
    IN  /\ bucket' = IF storeFails THEN bucket ELSE Remove(bucket, path)
        /\ _models' = Remove(_models, name)
        /\ lastOp' = [op |-> "delete_model",
                      arg |-> RepoArg(name, network_type, FALSE, storeFails),
                      res |-> DeleteResult(TRUE, path \in DOMAIN bucket,
                                           name \in DOMAIN _models)]

\* ModelDB.delete_model(name, network_type): remove_object of a key that is
\* not there is no error.
delete_model(name, network_type, storeFails) ==
    LET path == Path(network_type, name)
        arg == RepoArg(name, network_type, FALSE, storeFails)
    IN  IF storeFails
        THEN /\ lastOp' = [op |-> "delete_model", arg |-> arg,
                           res |-> DeleteResult(FALSE, path \in DOMAIN bucket,
                                                name \in DOMAIN _models)]
             /\ UNCHANGED <<bucket, _models>>
        ELSE /\ bucket' = Remove(bucket, path)
             /\ _models' = Remove(_models, name)
             /\ lastOp' = [op |-> "delete_model", arg |-> arg,
                           res |-> DeleteResult(TRUE, path \in DOMAIN bucket,
                                                name \in DOMAIN _models)]

DeleteModel ==
    /\ \E n \in Names, t \in Types, storeFails \in BOOLEAN :
          delete_model(n, t, storeFails)
    /\ UNCHANGED <<authVars, procVars>>

\* refresh(): ModelDB.update_models().  The cache is emptied first; the
\* listing is outside the try, so its exception goes to the caller.
Refresh ==
    /\ \E storeFails \in BOOLEAN :
          /\ _models' = IF storeFails THEN <<>> ELSE update_models(bucket)
          /\ lastOp' = [op |-> "update_models",
                        arg |-> [NoArg EXCEPT !.storeFails = storeFails],
                        res |-> IF storeFails THEN Raised ELSE Unit]
    /\ UNCHANGED <<bucket, authVars, procVars>>

\* list(): ModelDB.model_list, which reads ModelDB.models first; the store is
\* asked only when the cache is empty ('if not self._models'), which listed
\* records.
List ==
    /\ \E storeFails \in BOOLEAN :
          IF DOMAIN _models = {} /\ storeFails
          THEN /\ _models' = <<>>
               /\ lastOp' = [op |-> "model_list",
                             arg |-> [NoArg EXCEPT !.storeFails = storeFails],
                             res |-> Raised,
                             listed |-> TRUE]
          ELSE /\ _models' = models(bucket, _models)
               /\ lastOp' = [op |-> "model_list",
                             arg |-> [NoArg EXCEPT !.storeFails = storeFails],
                             res |-> model_list(_models'),
                             listed |-> DOMAIN _models = {}]
    /\ UNCHANGED <<bucket, authVars, procVars>>

\* get(name, networkType): ModelDB.get_model
Get ==
    /\ \E n \in Names, t \in Types, storeFails \in BOOLEAN :
          lastOp' = [op |-> "get_model",
                     arg |-> RepoArg(n, t, FALSE, storeFails),
                     res |-> get_model(bucket, n, t, storeFails)]
    /\ UNCHANGED <<bucket, _models, authVars, procVars>>

\* Another client of the same bucket writes an object that is no descriptor:
\* a zero-byte or undecodable body at a descriptor's key, or any object at a
\* key that is no 'type/name'.
ExternalPut ==
    /\ \E k \in Keys \cup BadKeys :
         \E body \in (IF k \in BadKeys THEN {GarbageBody} ELSE {EmptyBody, GarbageBody}) :
            /\ HasRoom(k)
            /\ bucket' = Put(bucket, k, body)
    /\ lastOp' = [op |-> "external_put", arg |-> NoArg, res |-> Unit]
    /\ UNCHANGED <<_models, authVars, procVars>>

Next == AddModel \/ DeleteModel \/ Refresh \/ List \/ Get \/ ExternalPut

Spec == Init /\ [][Next]_vars

\* ------------------------------------------------- credential operations
UserArg(username, password) == [username |-> username, password |-> password]
TokenArg(token) == [token |-> token]

\* A row of table users.
UserRow(password_hash, display_name, email, is_active) ==
    [password_hash |-> password_hash, display_name |-> display_name,
     email |-> email, is_active |-> is_active]

\* create_local_user with INSERT OR REPLACE.
create_local_user_replaces(username, password, display_name, email) ==
    /\ users' = Put(users, username,
                    UserRow(hash_password(password), display_name, email, TRUE))
    /\ created' = Put(created, username, password)
    /\ lastOp' = [op |-> "create_local_user", arg |-> UserArg(username, password),
                  res |-> [kind |-> "bool", ok |-> TRUE,
                           msg |-> "User created successfully"]]

\* create_local_user: INSERT INTO users; username is UNIQUE, is_active
\* defaults to 1.
create_local_user(username, password, display_name, email) ==
    IF username \in DOMAIN users
    THEN /\ lastOp' = [op |-> "create_local_user", arg |-> UserArg(username, password),
                       res |-> [kind |-> "bool", ok |-> FALSE,
                                msg |-> "Username already exists"]]
         /\ UNCHANGED <<users, created>>
    ELSE /\ users' = Put(users, username,
                         UserRow(hash_password(password), display_name, email, TRUE))
         /\ created' = Put(created, username, password)
         /\ lastOp' = [op |-> "create_local_user", arg |-> UserArg(username, password),
                       res |-> [kind |-> "bool", ok |-> TRUE,
                                msg |-> "User created successfully"]]

CreateLocalUser ==
    /\ \E username \in Usernames, password \in Passwords :
          create_local_user(username, password, username, "")
    /\ UNCHANGED <<api_tokens, now, issued, repoVars, procVars>>

\* scripts/manage_users.py create_user, which calls create_local_user: the
\* accounts of the token runs all get the one password.
CreateUser ==
    /\ \E username \in Usernames :
          create_local_user(username, "pw1", username, "")
    /\ UNCHANGED <<api_tokens, now, issued, repoVars, procVars>>

AuthenticateLocal ==
    /\ \E username \in Usernames, password \in Passwords :
          lastOp' = [op |-> "authenticate_local", arg |-> UserArg(username, password),
                     res |-> authenticate_local(users, username, password)]
    /\ UNCHANGED <<authVars, repoVars, procVars>>

AuthenticateLdap ==
    /\ \E username \in Usernames, d \in DirOutcomes :
          lastOp' = [op |-> "authenticate_ldap",
                     arg |-> [username |-> username, password |-> "pw1", dir |-> d],
                     res |-> authenticate_ldap(d, username, "pw1")]
    /\ UNCHANGED <<authVars, repoVars, procVars>>

\* The auth_type values a caller passes, one of them unknown.
CallerAuthTypes == {"ldap", "local", "sso"}

\* The directory at a dispatched sign-in: it accepts the user, or it lacks
\* the group.
DispatchOutcomes ==
    {DirOutcome(TRUE, "ok", TRUE, g, RequiredGroup) :
        g \in {{OtherGroup}, {OtherGroup, RequiredGroup}}}

Authenticate ==
    /\ \E username \in Usernames, password \in Passwords,
          auth_type \in CallerAuthTypes, d \in DispatchOutcomes :
          lastOp' = [op |-> "authenticate",
                     arg |-> [username |-> username, password |-> password,
                              auth_type |-> auth_type, dir |-> d],
                     res |-> authenticate(users, d, username, password, auth_type)]
    /\ UNCHANGED <<authVars, repoVars, procVars>>

\* scripts/manage_users.py set_user_status(username, active)
set_user_status(username, active) ==
    IF username \notin DOMAIN users
    THEN /\ lastOp' = [op |-> "set_user_status",
                       arg |-> [username |-> username, active |-> active],
                       res |-> [kind |-> "bool", ok |-> FALSE]]
         /\ UNCHANGED users
    ELSE /\ users' = [users EXCEPT ![username].is_active = active]
         /\ lastOp' = [op |-> "set_user_status",
                       arg |-> [username |-> username, active |-> active],
                       res |-> [kind |-> "bool", ok |-> TRUE]]

SetUserStatus ==
    /\ \E username \in Usernames, active \in BOOLEAN : set_user_status(username, active)
    /\ UNCHANGED <<api_tokens, now, issued, created, repoVars, procVars>>

\* scripts/manage_users.py reset_password(username, new_password)
reset_password(username, new_password) ==
    IF username \notin DOMAIN users
    THEN /\ lastOp' = [op |-> "reset_password", arg |-> UserArg(username, new_password),
                       res |-> [kind |-> "bool", ok |-> FALSE]]
         /\ UNCHANGED <<users, created>>
    ELSE /\ users' = [users EXCEPT ![username].password_hash =
                                       hash_password(new_password)]
         /\ created' = Remove(created, username)
         /\ lastOp' = [op |-> "reset_password", arg |-> UserArg(username, new_password),
                       res |-> [kind |-> "bool", ok |-> TRUE]]

ResetPassword ==
    /\ \E username \in Usernames, password \in Passwords :
          reset_password(username, password)
    /\ UNCHANGED <<api_tokens, now, issued, repoVars, procVars>>

\* What delete_user returned, and the tokens_deleted it printed.
UserDeleted(ok, tokens_deleted) ==
    [kind |-> "bool", ok |-> ok, tokens_deleted |-> tokens_deleted]

\* delete_user without the DELETE FROM api_tokens.
delete_user_keeps_tokens(username) ==
    IF username \notin DOMAIN users
    THEN /\ lastOp' = [op |-> "delete_user", arg |-> UserArg(username, ""),
                       res |-> UserDeleted(FALSE, 0)]
         /\ UNCHANGED <<users, api_tokens, created>>
    ELSE /\ api_tokens' = api_tokens
         /\ users' = Remove(users, username)
         /\ created' = Remove(created, username)
         /\ lastOp' = [op |-> "delete_user", arg |-> UserArg(username, ""),
                       res |-> UserDeleted(TRUE, 0)]

\* scripts/manage_users.py delete_user(username): the tokens, then the user;
\* nothing is committed when there is no such user.
delete_user(username) ==
    IF username \notin DOMAIN users
    THEN /\ lastOp' = [op |-> "delete_user", arg |-> UserArg(username, ""),
                       res |-> UserDeleted(FALSE, 0)]
         /\ UNCHANGED <<users, api_tokens, created>>
    ELSE /\ api_tokens' = {t \in api_tokens : t.username # username}
         /\ users' = Remove(users, username)
         /\ created' = Remove(created, username)
         /\ lastOp' = [op |-> "delete_user", arg |-> UserArg(username, ""),
                       res |-> UserDeleted(TRUE,
                                  Cardinality({t \in api_tokens :
                                                  t.username = username}))]

DeleteUser ==
    /\ \E username \in Usernames : delete_user(username)
    /\ UNCHANGED <<now, issued, repoVars, procVars>>

\* A row of table api_tokens.
TokenRow(token, username, clock) ==
    [id |-> token, username |-> username, token_hash |-> hash_token(token),
     description |-> "No description",
     expires_at |-> clock + API_TOKEN_EXPIRY_DAYS,
     created_at |-> clock, last_used_at |-> -1]

TokenFailed(msg) == [kind |-> "token", ok |-> FALSE, msg |-> msg]
TokenIssued(token) ==
    [kind |-> "token", ok |-> TRUE, token |-> token,
     msg |-> "API token created successfully"]

\* create_api_token without the SELECT of the active user.
create_api_token_any_user(u, toks, clock, drawn, username) ==
    [res |-> TokenIssued(drawn + 1),
     toks |-> toks \cup {TokenRow(drawn + 1, username, clock)}]

\* create_api_token(username, description) over the tables u and toks at
\* time clock, drawn raw tokens having been generated before: what it
\* returns, and table api_tokens afterwards.
create_api_token(u, toks, clock, drawn, username) ==
    IF ~(username \in DOMAIN u /\ u[username].is_active)
    THEN [res |-> TokenFailed("User not found or inactive"), toks |-> toks]
    ELSE [res |-> TokenIssued(drawn + 1),
          toks |-> toks \cup {TokenRow(drawn + 1, username, clock)}]

CreateApiToken ==
    /\ \E username \in Usernames :
          LET r == create_api_token(users, api_tokens, now, issued, username)
          IN  /\ r.res.ok => issued < MaxTokens
              /\ api_tokens' = r.toks
              /\ issued' = IF r.res.ok THEN issued + 1 ELSE issued
              /\ lastOp' = [op |-> "create_api_token",
                            arg |-> [username |-> username, auth_type |-> "local"],
                            res |-> r.res]
    /\ UNCHANGED <<users, now, created, repoVars, procVars>>

\* The password of an auto-provisioned account: secrets.token_urlsafe(32),
\* which nobody knows.
RandomPass == "random"
AuthTypes == {"ldap", "local"}

\* pages/tokens.py: a signed-in directory user with no row in users gets one
\* before the token is created.
Provision(u, username, auth_type) ==
    IF auth_type = "ldap" /\ username \notin DOMAIN u
    THEN Put(u, username, UserRow(hash_password(RandomPass), username, "", TRUE))
    ELSE u

\* pages/tokens.py create_token_form, submitted by the signed-in user.
CreateTokenForm ==
    /\ \E username \in Usernames, auth_type \in AuthTypes :
          LET u1 == Provision(users, username, auth_type)
              r == create_api_token(u1, api_tokens, now, issued, username)
          IN  /\ r.res.ok => issued < MaxTokens
              /\ users' = u1
              /\ api_tokens' = r.toks
              /\ issued' = IF r.res.ok THEN issued + 1 ELSE issued
              /\ lastOp' = [op |-> "create_token_form",
                            arg |-> [username |-> username, auth_type |-> auth_type],
                            res |-> r.res]
    /\ UNCHANGED <<now, created, repoVars, procVars>>

\* validate_api_token(token): on success last_used_at is set, then committed.
ValidateApiToken ==
    /\ \E token \in RawTokens, updateFails \in BOOLEAN :
          LET res == validate_api_token(users, api_tokens, now, token, updateFails)
          IN  /\ lastOp' = [op |-> "validate_api_token",
                            arg |-> [token |-> token, updateFails |-> updateFails],
                            res |-> res]
              /\ api_tokens' =
                    IF res.ok
                    THEN {IF t.token_hash = hash_token(token)
                          THEN [t EXCEPT !.last_used_at = now] ELSE t : t \in api_tokens}
                    ELSE api_tokens
    /\ UNCHANGED <<users, now, issued, created, repoVars, procVars>>

\* revoke_api_token that deletes every token of the owner.
revoke_api_token_of_owner(token) ==
    LET hit == {t \in api_tokens : t.token_hash = hash_token(token)}
    IN  IF hit = {}
        THEN /\ lastOp' = [op |-> "revoke_api_token", arg |-> TokenArg(token),
                           res |-> [kind |-> "bool", ok |-> FALSE,
                                    msg |-> "Token not found"]]
             /\ UNCHANGED api_tokens
        ELSE /\ api_tokens' = {t \in api_tokens :
                                  \A h \in hit : t.username # h.username}
             /\ lastOp' = [op |-> "revoke_api_token", arg |-> TokenArg(token),
                           res |-> [kind |-> "bool", ok |-> TRUE,
                                    msg |-> "Token revoked successfully"]]

\* revoke_api_token(token): DELETE FROM api_tokens WHERE token_hash = ?
revoke_api_token(token) ==
    LET hit == {t \in api_tokens : t.token_hash = hash_token(token)}
    IN  IF hit = {}
        THEN /\ lastOp' = [op |-> "revoke_api_token", arg |-> TokenArg(token),
                           res |-> [kind |-> "bool", ok |-> FALSE,
                                    msg |-> "Token not found"]]
             /\ UNCHANGED api_tokens
        ELSE /\ api_tokens' = api_tokens \ hit
             /\ lastOp' = [op |-> "revoke_api_token", arg |-> TokenArg(token),
                           res |-> [kind |-> "bool", ok |-> TRUE,
                                    msg |-> "Token revoked successfully"]]

RevokeApiToken ==
    /\ \E token \in RawTokens : revoke_api_token(token)
    /\ UNCHANGED <<users, now, issued, created, repoVars, procVars>>

\* One dict of the list list_user_tokens returns.
TokenInfo(t) ==
    [id |-> t.id, description |-> t.description, expires_at |-> t.expires_at,
     created_at |-> t.created_at, last_used_at |-> t.last_used_at]

\* The orders in which ORDER BY created_at DESC may return the rows S: rows
\* of one created_at come in any order.
NewestFirst(S) ==
    {l \in [1..Cardinality(S) -> S] :
        /\ \A i, j \in DOMAIN l : i # j => l[i] # l[j]
        /\ \A i, j \in DOMAIN l : i < j => l[i].created_at >= l[j].created_at}

\* list_user_tokens without the WHERE username = ?.
list_user_tokens_of_everyone(toks, username) ==
    {[i \in DOMAIN l |-> TokenInfo(l[i])] : l \in NewestFirst(toks)}

\* list_user_tokens(username): the lists it may return.
list_user_tokens(toks, username) ==
    {[i \in DOMAIN l |-> TokenInfo(l[i])] :
        l \in NewestFirst({t \in toks : t.username = username})}

ListUserTokens ==
    /\ \E username \in Usernames :
          \E l \in list_user_tokens(api_tokens, username) :
             lastOp' = [op |-> "list_user_tokens", arg |-> UserArg(username, ""),
                        res |-> [kind |-> "tokens", l |-> l]]
    /\ UNCHANGED <<authVars, repoVars, procVars>>

\* The clock moves on by a day or by a token's lifetime.
TicksOf(clock) == (clock \div API_TOKEN_EXPIRY_DAYS) + (clock % API_TOKEN_EXPIRY_DAYS)

Tick ==
    /\ \E d \in {1, API_TOKEN_EXPIRY_DAYS} :
          /\ TicksOf(now + d) <= MaxTicks
          /\ now' = now + d
    /\ lastOp' = [op |-> "tick", arg |-> NoArg, res |-> Unit]
    /\ UNCHANGED <<users, api_tokens, issued, created, repoVars, procVars>>

\* Accounts and sign-in: the users table with its passwords, and the tokens
\* the accounts hold at one moment of the clock.
NextAuth ==
    \/ CreateLocalUser \/ AuthenticateLocal \/ SetUserStatus \/ ResetPassword
    \/ DeleteUser
    \/ CreateTokenForm \/ RevokeApiToken
    \/ AuthenticateLdap \/ Authenticate

SpecAuth == Init /\ [][NextAuth]_vars

\* API tokens over time: issuing, validating, revoking and expiry, with the
\* accounts that own them.
NextTokens ==
    \/ CreateUser \/ SetUserStatus \/ DeleteUser
    \/ CreateApiToken \/ CreateTokenForm \/ ValidateApiToken \/ RevokeApiToken
    \/ ListUserTokens \/ Tick

SpecTokens == Init /\ [][NextTokens]_vars

\* ------------------------------------------- descriptor normalization
\* Entries of one inference_information['inference_args'] mapping.
MaxArgs == 2

ArgKeys == {<<"fold">>, <<"-", "-", "save_npz">>, <<"-", "x">>}
ArgValues == {StrVal(<<"all">>), BoolVal(TRUE), BoolVal(FALSE)}

\* The mappings of at most MaxArgs entries, no key twice.
Mappings ==
    {mp \in UNION {[1..n -> ArgKeys \X ArgValues] : n \in 0..MaxArgs} :
        \A i, j \in 1..Len(mp) : i # j => mp[i][1] # mp[j][1]}

NormInputs ==
    {[RawModel("a", "nnUNet", <<>>) EXCEPT !.inference_information = info,
                                           !.inference_args = given] :
        info \in {<<>>} \cup {<< <<"inference_args", mp>> >> : mp \in Mappings},
        given \in {<<>>, <<"-", "-", "fast">>}}

\* InferenceModel(**fields)
Build ==
    /\ \E raw \in NormInputs :
          lastOp' = [op |-> "InferenceModel", arg |-> raw,
                     res |-> Some(InferenceModel(raw))]
    /\ UNCHANGED <<repoVars, authVars, procVars>>

NextNorm == Build

SpecNorm == Init /\ [][NextNorm]_vars

\* ------------------------------------------------ concurrent operations
\* One round of the loop of update_models, over the listed object o.
LoadOne(b, o, cache) ==
    IF Len(o) # 2 THEN cache ELSE Put(cache, o[2], get_model(b, o[2], o[1], FALSE))

\* update_models(), statement by statement.  First 'self._models = {}' and
\* the listing of the bucket.
RefreshBegin ==
    /\ refreshing.at = "idle"
    /\ _models' = <<>>
    /\ refreshing' = [at |-> "loading", todo |-> get_objects(bucket),
                      before |-> _models]
    /\ lastOp' = [op |-> "update_models_begin", arg |-> NoArg, res |-> Unit]
    /\ UNCHANGED <<bucket, authVars, peer, adding, issuing>>

\* One round of the loop: 'self._models[name] = self.get_model(...)'.
RefreshLoad ==
    /\ refreshing.at = "loading"
    /\ refreshing.todo # <<>>
    /\ _models' = LoadOne(bucket, Head(refreshing.todo), _models)
    /\ refreshing' = [refreshing EXCEPT !.todo = Tail(refreshing.todo)]
    /\ lastOp' = [op |-> "update_models_load", arg |-> NoArg, res |-> Unit]
    /\ UNCHANGED <<bucket, authVars, peer, adding, issuing>>

\* The loop is over.
RefreshEnd ==
    /\ refreshing.at = "loading"
    /\ refreshing.todo = <<>>
    /\ refreshing' = Idle
    /\ lastOp' = [op |-> "update_models", arg |-> NoArg, res |-> Unit]
    /\ UNCHANGED <<bucket, _models, authVars, peer, adding, issuing>>

\* Another session of the application reads ModelDB.models of the ModelDB
\* the sessions share (st.connection caches it): the dict as it is, loaded
\* first when it is empty.
Observe ==
    /\ _models' = models(bucket, _models)
    /\ lastOp' = [op |-> "models", arg |-> NoArg,
                  res |-> [kind |-> "cache", cache |-> _models']]
    /\ UNCHANGED <<bucket, authVars, peer, refreshing, adding, issuing>>

\* The bucket is written while no update_models() is under way.
AddWhileIdle == refreshing.at = "idle" /\ AddModel

NextRefresh == AddWhileIdle \/ RefreshBegin \/ RefreshLoad \/ RefreshEnd \/ Observe

SpecRefresh == Init /\ [][NextRefresh]_vars

\* The other process: its update_models() and its model_list.
PeerRefresh ==
    /\ peer' = [_models |-> update_models(bucket), loaded |-> TRUE]
    /\ lastOp' = [op |-> "peer_update_models", arg |-> NoArg, res |-> Unit]
    /\ UNCHANGED <<repoVars, authVars, refreshing, adding, issuing>>

PeerList ==
    /\ peer' = [_models |-> models(bucket, peer._models), loaded |-> TRUE]
    /\ lastOp' = [op |-> "peer_model_list", arg |-> NoArg,
                  res |-> model_list(peer'._models)]
    /\ UNCHANGED <<repoVars, authVars, refreshing, adding, issuing>>

NextPeers == AddModel \/ DeleteModel \/ PeerRefresh \/ PeerList

SpecPeers == Init /\ [][NextPeers]_vars

\* add_model(model, overwrite=False) of caller c, up to its check: it
\* returns when object_exists answers True, and goes on to put_object when
\* not.
AddCheck(c) ==
    /\ adding[c].at = "idle"
    /\ \E raw \in RawInputs :
          LET m == InferenceModel(raw)
              path == Path(m.network_type, m.name)
              arg == RepoArg(m.name, m.network_type, FALSE, FALSE)
          IN  IF object_exists(bucket, path, FALSE)
              THEN /\ lastOp' = [op |-> "add_model", arg |-> arg,
                                 res |-> AddResult("bool", TRUE, FALSE, m),
                                 caller |-> c]
                   /\ UNCHANGED adding
              ELSE /\ HasRoom(path)
                   /\ adding' = [adding EXCEPT ![c] = [at |-> "put", m |-> m]]
                   /\ lastOp' = [op |-> "object_exists", arg |-> arg,
                                 res |-> [kind |-> "bool", ok |-> FALSE],
                                 caller |-> c]
    /\ UNCHANGED <<repoVars, authVars, peer, refreshing, issuing>>

\* The rest of the add_model of caller c: put_object and the cache entry.
AddPut(c) ==
    /\ adding[c].at = "put"
    /\ LET m == adding[c].m
           path == Path(m.network_type, m.name)
       IN  /\ HasRoom(path)
           /\ bucket' = Put(bucket, path, to_bytes(m))
           /\ _models' = Put(_models, m.name, Some(m))
           /\ lastOp' = [op |-> "add_model",
                         arg |-> RepoArg(m.name, m.network_type, FALSE, FALSE),
                         res |-> AddResult("bool", TRUE, TRUE, m),
                         caller |-> c]
    /\ adding' = [adding EXCEPT ![c] = Idle]
    /\ UNCHANGED <<authVars, peer, refreshing, issuing>>

AddBegin == \E c \in Callers : AddCheck(c)
AddFinish == \E c \in Callers : AddPut(c)

NextAdds == AddBegin \/ AddFinish

SpecAdds == Init /\ [][NextAdds]_vars

\* create_api_token(username), up to its SELECT of the active user: it
\* returns when there is none.
IssueCheck ==
    /\ issuing.at = "idle"
    /\ issued < MaxTokens
    /\ \E username \in Usernames :
          IF username \in DOMAIN users /\ users[username].is_active
          THEN /\ issuing' = [at |-> "insert", username |-> username]
               /\ lastOp' = [op |-> "select_user",
                             arg |-> [username |-> username, auth_type |-> "local"],
                             res |-> [kind |-> "bool", ok |-> TRUE]]
          ELSE /\ UNCHANGED issuing
               /\ lastOp' = [op |-> "create_api_token",
                             arg |-> [username |-> username, auth_type |-> "local"],
                             res |-> TokenFailed("User not found or inactive")]
    /\ UNCHANGED <<repoVars, authVars, peer, refreshing, adding>>

\* The rest of create_api_token: the INSERT and the commit.  Table api_tokens
\* declares a foreign key on users(username), which sqlite does not enforce
\* on a connection that has not switched foreign keys on.
IssueInsert ==
    /\ issuing.at = "insert"
    /\ api_tokens' = api_tokens \cup {TokenRow(issued + 1, issuing.username, now)}
    /\ issued' = issued + 1
    /\ issuing' = Idle
    /\ lastOp' = [op |-> "create_api_token",
                  arg |-> [username |-> issuing.username, auth_type |-> "local"],
                  res |-> TokenIssued(issued + 1)]
    /\ UNCHANGED <<users, now, created, repoVars, peer, refreshing, adding>>

NextIssue == CreateUser \/ SetUserStatus \/ DeleteUser \/ IssueCheck \/ IssueInsert

SpecIssue == Init /\ [][NextIssue]_vars

\* ================================================================ claims
\* The call lastOp records, for the repository.
AddedNow(op) == op.op = "add_model" /\ op.res.wrote
InCache(cache, m) == \E n \in DOMAIN cache : cache[n] = Some(m)
Listed(cache, m) ==
    /\ model_list(cache).kind = "list"
    /\ \E i \in 1..Len(model_list(cache).l) : model_list(cache).l[i] = m

\* C1: after add() of two valid descriptors that share a name and differ in
\* network_type, both are entities of the repository: get(name, networkType)
\* returns each with its own stored content, and the models cache and list()
\* hold both of them.
C1_CompositeKeyIdentity ==
    [][(/\ AddedNow(lastOp)
        /\ AddedNow(lastOp')
        /\ lastOp.arg.name = lastOp'.arg.name
        /\ lastOp.arg.network_type # lastOp'.arg.network_type)
       => LET d1 == lastOp.res.m
              d2 == lastOp'.res.m
          IN  /\ get_model(bucket', d1.name, d1.network_type, FALSE) = Some(load(to_bytes(d1)))
              /\ get_model(bucket', d2.name, d2.network_type, FALSE) = Some(load(to_bytes(d2)))
              /\ InCache(_models', d1) /\ InCache(_models', d2)
              /\ Listed(_models', d1) /\ Listed(_models', d2)]_vars

\* An object refresh() has to load: a 'type/name' key over a decodable body.
WellFormed(b, k) == Len(k) = 2 /\ b[k].kind = "json" /\ SchemaOk(b[k].doc)

\* No other well-formed object has the name of the object at k (two
\* well-formed objects of one name are the case of C1).
OnlyOfItsName(b, k) ==
    \A j \in DOMAIN b : (j # k /\ WellFormed(b, j)) => j[2] # k[2]

\* C2: refresh() skips every object whose key has not exactly two segments or
\* whose body fails validation: the cache holds no entry and no null entry for
\* it, every well-formed object is still loaded, and list() over the refreshed
\* cache succeeds.
C2_RefreshSkipsMalformed ==
    (lastOp.op = "update_models" /\ ~lastOp.arg.storeFails) =>
        /\ \A n \in DOMAIN _models : _models[n].kind = "model"
        /\ \A k \in DOMAIN bucket :
              (WellFormed(bucket, k) /\ OnlyOfItsName(bucket, k))
                  => InCache(_models, load(bucket[k]))
        /\ model_list(_models).kind = "list"

\* C3: add(d) followed by get(d.name, d.network_type) returns a descriptor
\* equal to d on every schema field, whatever the store held before the add.
C3_RoundTrip ==
    (lastOp.op = "add_model" /\ lastOp.res.ok) =>
        get_model(bucket, lastOp.arg.name, lastOp.arg.network_type, FALSE)
            = Some(lastOp.res.m)

\* The call is add(d, overwrite=false) for the key k.
AddNoOverwrite(op, k) ==
    /\ op.op = "add_model"
    /\ ~op.arg.overwrite
    /\ Path(op.arg.network_type, op.arg.name) = k

\* C9 as claimed: add(d, overwrite=false) when an object already exists at
\* the composite key returns success without writing, the stored content at
\* the key being the same before and after.
C9_NoOverwriteAnyObject ==
    [][\A k \in Keys :
          (AddNoOverwrite(lastOp', k) /\ ~lastOp'.arg.storeFails
              /\ k \in DOMAIN bucket)
              => (lastOp'.res.ok /\ bucket' = bucket)]_vars

\* C9 amended: add(d, overwrite=false) when the store reports a non-empty
\* object at the composite key returns success without writing (bucket and
\* cache are as before); and a second add(d, overwrite=false) right after a
\* first one that the store answered returns success and leaves the stored
\* content as the first left it.
C9_NoOverwriteIdempotent ==
    [][\A k \in Keys :
          /\ (AddNoOverwrite(lastOp', k) /\ ~lastOp'.arg.storeFails
                 /\ k \in DOMAIN bucket /\ bucket[k] # EmptyBody)
               => (/\ lastOp'.res.ok /\ ~lastOp'.res.wrote
                   /\ bucket' = bucket /\ _models' = _models)
          /\ (AddNoOverwrite(lastOp, k) /\ AddNoOverwrite(lastOp', k)
                 /\ ~lastOp.arg.storeFails /\ ~lastOp'.arg.storeFails
                 /\ lastOp.res.m = lastOp'.res.m)
               => (/\ lastOp.res.ok /\ lastOp'.res.ok
                   /\ bucket' = bucket)]_vars

\* C9 witness: an add(d, overwrite=false) met another, non-empty object at
\* its key and left it there.
C9_Witness ==
    /\ lastOp.op = "add_model"
    /\ ~lastOp.arg.overwrite
    /\ ~lastOp.res.wrote
    /\ bucket[Path(lastOp.arg.network_type, lastOp.arg.name)] # to_bytes(lastOp.res.m)

\* l is ascending by (network_type, name).
Ascending(l) == \A i \in 1..Len(l) - 1 : ModelLess(l[i], l[i + 1])

\* C10: list() returns, in every reachable state, a sequence sorted ascending
\* by (network_type, name).
C10_ListSorted ==
    (lastOp.op = "model_list" /\ ~lastOp.arg.storeFails) =>
        (lastOp.res.kind = "list" /\ Ascending(lastOp.res.l))

\* ------------------------------------------------------ token claims
\* The calls that issue a token.
IssueOps == {"create_api_token", "create_token_form"}

\* The stored rows of a raw token, and whether a validation of it passes the
\* three checks now: stored, owner active, not past expires_at.
RowsOf(toks, token) == {t \in toks : t.token_hash = hash_token(token)}
OwnerActive(u, t) == t.username \in DOMAIN u /\ u[t.username].is_active
Live(u, toks, clock, token) ==
    \E t \in RowsOf(toks, token) : OwnerActive(u, t) /\ clock <= t.expires_at

ValidatedNow(op, token) == op.op = "validate_api_token" /\ op.arg.token = token

\* C4 as claimed: an issued token validates at every moment from issuance
\* until revokeToken is called on it or the clock passes expires_at, then
\* fails as invalid resp. expired, and no other operation ends or restores
\* its validity.  (Validations whose last_used_at write fails are C8's case
\* and are left out here.)
C4_OnlyRevokeOrExpiry ==
    [][\A token \in RawTokens :
          /\ (Live(users, api_tokens, now, token)
                 # Live(users', api_tokens', now', token))
               => \/ lastOp'.op \in IssueOps
                  \/ lastOp'.op = "revoke_api_token" /\ lastOp'.arg.token = token
                  \/ lastOp'.op = "tick"
          /\ (ValidatedNow(lastOp', token) /\ token <= issued
                 /\ ~lastOp'.arg.updateFails)
               => IF RowsOf(api_tokens, token) = {}
                  THEN lastOp'.res = Rejected("Invalid API token")
                  ELSE IF \E t \in RowsOf(api_tokens, token) : now > t.expires_at
                  THEN lastOp'.res = Rejected("API token has expired")
                  ELSE lastOp'.res.ok]_vars

\* C4 amended: an issued token passes validateToken's checks from its
\* issuance until revokeToken is called on it, the clock passes expires_at, or
\* its owner is disabled or deleted; nothing else ends this, and besides the
\* issuance only re-enabling the owner starts it again.  While it lasts a
\* validation returns the owner's Identity, or a token-validation error when
\* the last_used_at write fails; once the token is revoked or its owner is
\* disabled or deleted the validation fails as invalid, and once expired
\* (owner active) as expired.
C4_TokenValidity ==
    [][\A token \in RawTokens :
          /\ (Live(users, api_tokens, now, token)
                 /\ ~Live(users', api_tokens', now', token))
               => \/ lastOp'.op = "revoke_api_token" /\ lastOp'.arg.token = token
                  \/ lastOp'.op = "tick"
                  \/ /\ lastOp'.op \in {"set_user_status", "delete_user"}
                     /\ \E t \in RowsOf(api_tokens, token) :
                           t.username = lastOp'.arg.username
          /\ (~Live(users, api_tokens, now, token)
                 /\ Live(users', api_tokens', now', token))
               => \/ /\ lastOp'.op \in IssueOps
                     /\ lastOp'.res.ok /\ lastOp'.res.token = token
                  \/ /\ lastOp'.op = "set_user_status"
                     /\ \E t \in RowsOf(api_tokens, token) :
                           t.username = lastOp'.arg.username
          /\ (lastOp'.op \in IssueOps /\ lastOp'.res.ok
                 /\ lastOp'.res.token = token)
               => Live(users', api_tokens', now', token)
          /\ (lastOp'.op = "revoke_api_token" /\ lastOp'.arg.token = token)
               => ~Live(users', api_tokens', now', token)
          /\ ValidatedNow(lastOp', token)
               => IF Live(users, api_tokens, now, token)
                  THEN \/ lastOp'.res.ok
                       \/ /\ lastOp'.arg.updateFails
                          /\ lastOp'.res = Rejected("Token validation error")
                  ELSE IF \E t \in RowsOf(api_tokens, token) : OwnerActive(users, t)
                  THEN lastOp'.res = Rejected("API token has expired")
                  ELSE lastOp'.res = Rejected("Invalid API token")]_vars

\* C4 witness: a stored, unexpired token of a disabled owner was presented
\* and rejected as invalid.
C4_Witness ==
    /\ lastOp.op = "validate_api_token"
    /\ lastOp.res = Rejected("Invalid API token")
    /\ \E t \in RowsOf(api_tokens, lastOp.arg.token) :
          /\ now <= t.expires_at
          /\ t.username \in DOMAIN users
          /\ ~users[t.username].is_active

\* C6: for every (username, password) a successful createLocalUser inserted
\* (the row is still there, its password not reset), authenticateLocal with
\* the pair succeeds while the account is active and returns an Identity of
\* that username and of source local; with the username and any other
\* password it is rejected as invalid credentials.
C6_CreateThenAuthenticate ==
    (lastOp.op = "authenticate_local" /\ lastOp.arg.username \in DOMAIN created)
        => LET username == lastOp.arg.username
           IN  IF lastOp.arg.password = created[username]
               THEN users[username].is_active
                       => /\ lastOp.res.ok
                          /\ lastOp.res.user.username = username
                          /\ lastOp.res.user.auth_type = "local"
               ELSE lastOp.res = Rejected("Invalid username or password")

\* C6 witness: a created user authenticated with the created password.
C6_Witness ==
    /\ lastOp.op = "authenticate_local"
    /\ lastOp.arg.username \in DOMAIN created
    /\ lastOp.arg.password = created[lastOp.arg.username]
    /\ lastOp.res.ok

\* C7: validateToken rejects whenever no stored token has the hash, whenever
\* the owner is inactive, and whenever now > expires_at; when it succeeds none
\* of the three holds and the Identity is the owner's, of source api_token.
C7_ValidateRejects ==
    lastOp.op = "validate_api_token" =>
        LET rows == RowsOf(api_tokens, lastOp.arg.token)
        IN  /\ rows = {} => ~lastOp.res.ok
            /\ (\E t \in rows : ~OwnerActive(users, t)) => ~lastOp.res.ok
            /\ (\E t \in rows : now > t.expires_at) => ~lastOp.res.ok
            /\ lastOp.res.ok
                 => /\ lastOp.res.user.auth_type = "api_token"
                    /\ \E t \in rows : /\ lastOp.res.user.username = t.username
                                       /\ OwnerActive(users, t)
                                       /\ now <= t.expires_at

\* C7 witness: a validation succeeded, and the same token exists.
C7_Witness ==
    /\ lastOp.op = "validate_api_token"
    /\ lastOp.res.ok
    /\ RowsOf(api_tokens, lastOp.arg.token) # {}

\* C8: when the token is present, its owner active and the token unexpired, a
\* failure of the last_used_at update does not fail the validation.
C8_UpdateFailureTolerated ==
    (/\ lastOp.op = "validate_api_token"
     /\ lastOp.arg.updateFails
     /\ Live(users, api_tokens, now, lastOp.arg.token))
        => /\ lastOp.res.ok
           /\ \E t \in RowsOf(api_tokens, lastOp.arg.token) :
                 lastOp.res.user.username = t.username

\* ---------------------------------------------- normalization claim
\* {"fold": "all", "--save_npz": true} and "--fold all --save_npz"
ExampleMapping ==
    << <<(<<"fold">>), StrVal(<<"all">>)>>,
       <<(<<"-", "-", "save_npz">>), BoolVal(TRUE)>> >>
ExampleArgs == <<"-", "-", "fold", " ", "all", " ", "-", "-", "save_npz">>

\* C5: built with empty inference_args over a mapping, the descriptor's
\* inference_args is the '--flag value' pairs joined by single spaces in
\* insertion order, no separator before or after; for the example mapping it
\* is "--fold all --save_npz".
C5_Normalization ==
    (/\ lastOp.op = "InferenceModel"
     /\ lastOp.arg.inference_args = <<>>
     /\ DictHas(lastOp.arg.inference_information, "inference_args"))
        => LET mapping == DictGet(lastOp.arg.inference_information, "inference_args")
               out == lastOp.res.m.inference_args
           IN  /\ out = Join([i \in 1..Len(mapping) |->
                                 ArgOf(mapping[i][1], mapping[i][2])])
               /\ mapping = ExampleMapping => out = ExampleArgs

\* ------------------------------------------- repository error claims
\* C14: an error of the object store is caught at the repository boundary and
\* returned as an error result, never raised to the caller: add() whose store
\* write fails returns a failure result, and refresh() / list() whose bucket
\* listing fails leave resp. return an empty list.
C14_StoreErrorsCaught ==
    (/\ lastOp.op \in {"add_model", "update_models", "model_list", "delete_model",
                       "get_model"}
     /\ lastOp.arg.storeFails
     /\ lastOp.op = "add_model" => SchemaOk(lastOp.res.m))
        => /\ lastOp.res.kind # "raise"
           /\ lastOp.op = "add_model" => (lastOp.res.kind = "bool" /\ ~lastOp.res.ok)
           /\ lastOp.op = "update_models" => _models = <<>>
           /\ lastOp.op = "model_list" /\ DOMAIN _models = {}
                 => lastOp.res = [kind |-> "list", l |-> <<>>]

\* C15: delete(name, networkType) reports failure whenever the store's remove
\* call errors, and then leaves cache and storage as they were; when the store
\* call succeeds it reports success, and the object is absent from storage and
\* the name from the cache afterwards, every other object being untouched,
\* also when the object had no entry in the cache.
C15_DeleteReportsStoreError ==
    [][lastOp'.op = "delete_model"
          => LET path == Path(lastOp'.arg.network_type, lastOp'.arg.name)
             IN  IF lastOp'.arg.storeFails
                 THEN /\ ~lastOp'.res.ok
                      /\ _models' = _models
                      /\ bucket' = bucket
                 ELSE /\ lastOp'.res.ok
                      /\ path \notin DOMAIN bucket'
                      /\ lastOp'.arg.name \notin DOMAIN _models'
                      /\ \A k \in DOMAIN bucket \ {path} :
                            k \in DOMAIN bucket' /\ bucket'[k] = bucket[k]]_vars

\* C15 witness: a delete removed an object that was in storage and had no
\* entry in the cache.
C15_Witness ==
    /\ lastOp.op = "delete_model"
    /\ lastOp.res.ok
    /\ lastOp.res.existed
    /\ ~lastOp.res.cached

\* C16: when add() writes, the object at network_type/name afterwards is the
\* serialization of the given descriptor, the cache entry of the descriptor
\* equals it, and no other object changes; an add() the store answers writes
\* whenever the key holds nothing or overwrite is true.  Through the
\* repository's calls a key becomes present only by an add() of it and absent
\* only by a delete() of it.
C16_AddWritesAndCaches ==
    [][/\ (lastOp'.op = "add_model" /\ lastOp'.res.wrote)
            => LET m == lastOp'.res.m
                   path == Path(m.network_type, m.name)
               IN  /\ path \in DOMAIN bucket'
                   /\ bucket'[path] = to_bytes(m)
                   /\ m.name \in DOMAIN _models'
                   /\ _models'[m.name] = Some(m)
                   /\ \A k \in DOMAIN bucket \ {path} :
                         k \in DOMAIN bucket' /\ bucket'[k] = bucket[k]
       /\ (/\ lastOp'.op = "add_model"
           /\ SchemaOk(lastOp'.res.m)
           /\ ~lastOp'.arg.storeFails
           /\ \/ lastOp'.arg.overwrite
              \/ Path(lastOp'.arg.network_type, lastOp'.arg.name) \notin DOMAIN bucket)
            => lastOp'.res.wrote
       /\ \A k \in Keys :
             /\ (k \notin DOMAIN bucket /\ k \in DOMAIN bucket')
                  => \/ lastOp'.op = "external_put"
                     \/ /\ lastOp'.op = "add_model"
                        /\ Path(lastOp'.arg.network_type, lastOp'.arg.name) = k
             /\ (k \in DOMAIN bucket /\ k \notin DOMAIN bucket')
                  => /\ lastOp'.op = "delete_model"
                     /\ Path(lastOp'.arg.network_type, lastOp'.arg.name) = k]_vars

\* C16 witness: an add with overwrite replaced the object of another
\* descriptor at its key (Present -> Present).
C16_Witness ==
    /\ lastOp.op = "add_model"
    /\ lastOp.arg.overwrite
    /\ lastOp.res.wrote
    /\ lastOp.res.existed
    /\ lastOp.res.m.contour_names # <<>>
    /\ bucket[Path(lastOp.arg.network_type, lastOp.arg.name)] = to_bytes(lastOp.res.m)

\* C17: get(name, networkType) returns no descriptor when the object at
\* network_type/name is absent, when it is zero bytes long, and when fetching
\* or decoding it fails; it never raises, and a descriptor it returns is the
\* decoded content of the stored object.
C17_GetNotFound ==
    lastOp.op = "get_model"
        => LET path == Path(lastOp.arg.network_type, lastOp.arg.name)
           IN  /\ lastOp.res.kind \in {"none", "model"}
               /\ (\/ lastOp.arg.storeFails
                   \/ path \notin DOMAIN bucket
                   \/ bucket[path] = EmptyBody
                   \/ bucket[path].kind # "json")
                    => lastOp.res = None
               /\ lastOp.res.kind = "model"
                    => /\ path \in DOMAIN bucket
                       /\ bucket[path].kind = "json"
                       /\ lastOp.res.m = load(bucket[path])

\* C17 witness: get of a zero-byte object returned no descriptor.
C17_Witness ==
    /\ lastOp.op = "get_model"
    /\ ~lastOp.arg.storeFails
    /\ Path(lastOp.arg.network_type, lastOp.arg.name) \in DOMAIN bucket
    /\ bucket[Path(lastOp.arg.network_type, lastOp.arg.name)] = EmptyBody
    /\ lastOp.res = None

\* C20: add() given raw fields that violate the descriptor schema (no name, a
\* name of the wrong type, a network_type outside the enum) rejects the input:
\* it does not return success, no object is written and the cache is as it
\* was.
C20_SchemaViolationRejected ==
    [][(lastOp'.op = "add_model" /\ ~SchemaOk(lastOp'.res.m))
          => /\ ~lastOp'.res.ok
             /\ ~lastOp'.res.wrote
             /\ bucket' = bucket
             /\ _models' = _models]_vars

\* C20 witness: an add of a network_type outside the enum was rejected by a
\* repository that holds objects and cache entries.
C20_Witness ==
    /\ lastOp.op = "add_model"
    /\ lastOp.arg.network_type \notin NetworkType
    /\ ~lastOp.res.ok
    /\ DOMAIN bucket # {}
    /\ DOMAIN _models # {}

\* ------------------------------------------------------ account claims
\* The sign-in lastOp' records was for an account of table users, resp. with
\* the password the account has.
SignIn(op, u) == op.op = "authenticate_local" /\ op.arg.username \in DOMAIN u
RightPassword(op, u) ==
    u[op.arg.username].password_hash = hash_password(op.arg.password)

\* C11: while a user is disabled every authenticateLocal for the user fails,
\* with the account-disabled rejection when the correct password is given; an
\* enabled user with the correct password succeeds.  set_user_status changes
\* nothing but the active flag of its user (the password stays), and nothing
\* else changes the active flag of an account.
C11_DisableBlocksLogin ==
    [][/\ (SignIn(lastOp', users) /\ ~users[lastOp'.arg.username].is_active)
            => /\ ~lastOp'.res.ok
               /\ RightPassword(lastOp', users)
                    => lastOp'.res = Rejected("User account is disabled")
       /\ (/\ SignIn(lastOp', users)
           /\ users[lastOp'.arg.username].is_active
           /\ RightPassword(lastOp', users))
            => /\ lastOp'.res.ok
               /\ lastOp'.res.user.username = lastOp'.arg.username
       /\ (lastOp'.op = "set_user_status" /\ lastOp'.res.ok)
            => users' = [users EXCEPT ![lastOp'.arg.username].is_active =
                                           lastOp'.arg.active]
       /\ \A u \in DOMAIN users \cap DOMAIN users' :
             users'[u].is_active # users[u].is_active
                => lastOp'.op = "set_user_status" /\ lastOp'.arg.username = u]_vars

\* C11 witness: a disabled account was refused as disabled although the
\* password was the right one.
C11_Witness ==
    /\ SignIn(lastOp, users)
    /\ RightPassword(lastOp, users)
    /\ ~users[lastOp.arg.username].is_active
    /\ lastOp.res = Rejected("User account is disabled")

\* C12: authenticateLocal answers a username that does not exist and an
\* existing username with a wrong password with the same rejection, and
\* reports account-disabled only when the password matches the stored hash: a
\* disabled account with a wrong password is rejected as invalid credentials.
C12_UniformRejection ==
    lastOp.op = "authenticate_local"
        => /\ (\/ lastOp.arg.username \notin DOMAIN users
               \/ ~RightPassword(lastOp, users))
                => lastOp.res = Rejected("Invalid username or password")
           /\ lastOp.res = Rejected("User account is disabled")
                => /\ lastOp.arg.username \in DOMAIN users
                   /\ RightPassword(lastOp, users)
                   /\ ~users[lastOp.arg.username].is_active

\* C12 witness: a disabled account with a wrong password was rejected as
\* invalid credentials.
C12_Witness ==
    /\ SignIn(lastOp, users)
    /\ ~RightPassword(lastOp, users)
    /\ ~users[lastOp.arg.username].is_active
    /\ lastOp.res = Rejected("Invalid username or password")

\* C13: createLocalUser with a username that exists returns the
\* duplicate-username failure and leaves table users as it was, so the record
\* of the user is unchanged: every password authenticates after the call as
\* it did before, and the password of the call, when it is not the user's,
\* does not authenticate.
C13_DuplicateUsername ==
    [][(lastOp'.op = "create_local_user" /\ lastOp'.arg.username \in DOMAIN users)
          => LET username == lastOp'.arg.username
             IN  /\ lastOp'.res = [kind |-> "bool", ok |-> FALSE,
                                   msg |-> "Username already exists"]
                 /\ users' = users
                 /\ \A p \in Passwords :
                       authenticate_local(users', username, p)
                           = authenticate_local(users, username, p)
                 /\ users[username].password_hash # hash_password(lastOp'.arg.password)
                       => ~authenticate_local(users', username,
                                              lastOp'.arg.password).ok]_vars

\* C13 witness: a second createLocalUser of a username came with another
\* password and was refused, the first password still being the one that
\* authenticates.
C13_Witness ==
    /\ lastOp.op = "create_local_user"
    /\ ~lastOp.res.ok
    /\ lastOp.arg.username \in DOMAIN created
    /\ created[lastOp.arg.username] # lastOp.arg.password
    /\ authenticate_local(users, lastOp.arg.username,
                          created[lastOp.arg.username]).ok

\* ------------------------------------------------ token issuing claims
\* C18: issueToken succeeds only when table users holds an active row of the
\* username at the time of the create_api_token call; otherwise it fails and
\* adds no token.  On success exactly one row is added: of the username, with
\* the hash of the returned token and expires_at = issue time + the
\* configured days.  A directory-authenticated caller without a row gets an
\* active row with an unusable password before the call, so that the token
\* is issued.
C18_IssueNeedsActiveUser ==
    [][lastOp'.op \in IssueOps
          => LET username == lastOp'.arg.username
                 active == username \in DOMAIN users' /\ users'[username].is_active
             IN  /\ lastOp'.res.ok => active
                 /\ ~active => (~lastOp'.res.ok /\ api_tokens' = api_tokens)
                 /\ lastOp'.res.ok
                      => /\ RowsOf(api_tokens, lastOp'.res.token) = {}
                         /\ api_tokens' = api_tokens \cup
                               RowsOf(api_tokens', lastOp'.res.token)
                         /\ \A t \in RowsOf(api_tokens', lastOp'.res.token) :
                               /\ t.username = username
                               /\ t.expires_at = now + API_TOKEN_EXPIRY_DAYS
                         /\ Cardinality(RowsOf(api_tokens', lastOp'.res.token)) = 1
                 /\ lastOp'.op = "create_api_token" => users' = users
                 /\ (/\ lastOp'.op = "create_token_form"
                     /\ lastOp'.arg.auth_type = "ldap"
                     /\ username \notin DOMAIN users)
                      => /\ lastOp'.res.ok
                         /\ users' = Put(users, username, users'[username])
                         /\ users'[username].is_active
                         /\ \A p \in Passwords :
                               users'[username].password_hash # hash_password(p)
                 /\ (/\ lastOp'.op = "create_token_form"
                     /\ (lastOp'.arg.auth_type # "ldap" \/ username \in DOMAIN users))
                      => users' = users]_vars

\* C18 witness: a token was issued to a directory user whose row was
\* auto-provisioned.
C18_Witness ==
    /\ lastOp.op = "create_token_form"
    /\ lastOp.arg.auth_type = "ldap"
    /\ lastOp.res.ok
    /\ users[lastOp.arg.username].password_hash = hash_password(RandomPass)
    /\ \A t \in api_tokens : t.username = lastOp.arg.username
    /\ Cardinality(api_tokens) = 1

\* C19: revokeToken(rawToken) deletes exactly the stored token whose hash
\* matches and no other; when none matches it returns not-found and table
\* api_tokens is unchanged; a token that was generated and is not stored never
\* is stored again and does not validate, whatever is issued later.
C19_RevokeExactlyOne ==
    [][/\ lastOp'.op = "revoke_api_token"
            => LET hit == RowsOf(api_tokens, lastOp'.arg.token)
               IN  IF hit = {}
                   THEN /\ lastOp'.res = [kind |-> "bool", ok |-> FALSE,
                                          msg |-> "Token not found"]
                        /\ api_tokens' = api_tokens
                   ELSE /\ lastOp'.res.ok
                        /\ Cardinality(hit) = 1
                        /\ api_tokens' = api_tokens \ hit
       /\ \A token \in RawTokens :
             (token <= issued /\ RowsOf(api_tokens, token) = {})
                => /\ RowsOf(api_tokens', token) = {}
                   /\ ValidatedNow(lastOp', token)
                        => lastOp'.res = Rejected("Invalid API token")
                   /\ (lastOp'.op \in IssueOps /\ lastOp'.res.ok)
                        => lastOp'.res.token # token]_vars

\* C19 witness: a revocation deleted the token it was given and left the
\* other stored token, of an existing user, in place.
C19_Witness ==
    /\ lastOp.op = "revoke_api_token"
    /\ lastOp.res.ok
    /\ RowsOf(api_tokens, lastOp.arg.token) = {}
    /\ Cardinality(api_tokens) = 1
    /\ \A t \in api_tokens : t.username \in DOMAIN users

\* ------------------------------------------------- token owner claims
\* The rows of table api_tokens a username owns.
OwnedBy(toks, username) == {t \in toks : t.username = username}

\* C23: deleting an existing user removes the user and every API token the
\* user owns and nothing else, and none of those tokens validates afterwards;
\* deleting a username that does not exist fails and removes no user and no
\* token.
C23_DeleteUserCascades ==
    [][lastOp'.op = "delete_user"
          => LET username == lastOp'.arg.username
             IN  IF username \in DOMAIN users
                 THEN /\ lastOp'.res.ok
                      /\ users' = Remove(users, username)
                      /\ api_tokens' = api_tokens \ OwnedBy(api_tokens, username)
                      /\ \A t \in OwnedBy(api_tokens, username) :
                            \A f \in BOOLEAN :
                               validate_api_token(users', api_tokens', now', t.id, f)
                                   = Rejected("Invalid API token")
                 ELSE /\ ~lastOp'.res.ok
                      /\ users' = users
                      /\ api_tokens' = api_tokens]_vars

\* C23 witness: a user who owned tokens was deleted while another user's
\* token stayed.
C23_Witness ==
    /\ lastOp.op = "delete_user"
    /\ lastOp.res.ok
    /\ lastOp.res.tokens_deleted > 0
    /\ api_tokens # {}

\* The fields of one entry of listTokens.
TokenInfoFields == {"id", "description", "expires_at", "created_at", "last_used_at"}

C24_DirectoryRejections ==
    (lastOp.op = "authenticate_ldap" /\ lastOp.arg.dir.ldap3)
        => LET d == lastOp.arg.dir
           IN  /\ lastOp.res.ok
                    => /\ d.bind = "ok"
                       /\ d.required # "" => d.required \in d.groups
               /\ (d.bind = "ok" /\ d.found /\ d.required # ""
                      /\ d.required \notin d.groups)
                    => lastOp.res = Rejected("You are not authorized to access this application")
               /\ d.bind \in {"refused", "rebind_refused"}
                    => lastOp.res = Rejected("Invalid username or password")
               /\ d.bind = "unreachable"
                    => lastOp.res = Rejected("Authentication error")

\* C26: authenticate(username, password, mode) with a mode other than 'ldap'
\* and 'local' returns a rejection that names the mode, whatever either
\* authenticator would have answered; with a known mode it returns exactly
\* the result of the authenticator of the mode.
C26_DispatchByMode ==
    lastOp.op = "authenticate"
        => LET a == lastOp.arg
           IN  /\ a.auth_type = "ldap"
                    => lastOp.res = authenticate_ldap(a.dir, a.username, a.password)
               /\ a.auth_type = "local"
                    => lastOp.res = authenticate_local(users, a.username, a.password)
               /\ a.auth_type \notin {"ldap", "local"}
                    => /\ ~lastOp.res.ok
                       /\ lastOp.res = UnknownType(a.auth_type)

\* C26 witness: an unknown mode was rejected although both the local and the
\* directory authenticator accept the credentials.
C26_Witness ==
    /\ lastOp.op = "authenticate"
    /\ lastOp.arg.auth_type \notin {"ldap", "local"}
    /\ ~lastOp.res.ok
    /\ authenticate_local(users, lastOp.arg.username, lastOp.arg.password).ok
    /\ authenticate_ldap(lastOp.arg.dir, lastOp.arg.username, lastOp.arg.password).ok

\* ----------------------------------------------------- cache claims
\* C28: delete(name, networkType) of a stored descriptor removes only the
\* cache entry of that descriptor: a cached descriptor of the same name and another network_type
\* that is still in storage stays in the cache, and in list() when list()
\* showed it before.
C28_DeleteEvictsOnlyItsOwn ==
    [][(lastOp'.op = "delete_model" /\ lastOp'.res.ok /\ lastOp'.res.existed)
          => \A n \in DOMAIN _models :
                (/\ _models[n].kind = "model"
                 /\ \/ n # lastOp'.arg.name
                    \/ _models[n].m.network_type # lastOp'.arg.network_type
                 /\ Path(_models[n].m.network_type, n) \in DOMAIN bucket')
                => /\ InCache(_models', _models[n].m)
                   /\ Listed(_models, _models[n].m)
                        => Listed(_models', _models[n].m)]_vars

\* C30: the cache is loaded once and kept: a list() that follows a list()
\* that succeeded, or a delete that removed a cached entry, answers from the
\* cache without listing the bucket, also when the bucket was empty at the
\* load and when the delete removed the last entry.
C30_LoadedOnce ==
    [][(/\ lastOp'.op = "model_list" /\ ~lastOp'.arg.storeFails
        /\ \/ lastOp.op = "model_list" /\ lastOp.res.kind = "list"
           \/ lastOp.op = "delete_model" /\ lastOp.res.ok /\ lastOp.res.cached)
          => ~lastOp'.listed]_vars

\* ------------------------------------------------ concurrency claims
\* C21: refresh() replaces the cache atomically: a read of the cache while a
\* refresh is under way returns the complete cache of before the refresh or
\* the complete cache of after it, never an empty or a partly loaded one
\* (stated for a bucket of well-formed objects no two of which share a name).
C21_RefreshAtomic ==
    (/\ lastOp.op = "models"
     /\ refreshing.at = "loading"
     /\ \A k \in DOMAIN bucket : WellFormed(bucket, k) /\ OnlyOfItsName(bucket, k))
        => lastOp.res.cache \in {refreshing.before, update_models(bucket)}

\* C22: of two processes with a cache each over the same bucket, a write of
\* one does not change the cache of the other, and the other sees it only
\* after its own refresh(): a list() of a process that has loaded its cache
\* leaves the cache as it was.
C22_PeerSeesAfterRefresh ==
    [][/\ lastOp'.op \in {"add_model", "delete_model"} => peer' = peer
       /\ (lastOp'.op = "peer_model_list" /\ peer.loaded)
            => peer'._models = peer._models]_vars

\* C27: of two add(d, overwrite=false) for one key at the same time at most
\* one writes: no add with overwrite=false replaces the content another add
\* has written at the key.
C27_ConcurrentAddWritesOnce ==
    [][\A k \in Keys :
          (AddNoOverwrite(lastOp', k) /\ k \in DOMAIN bucket
              /\ bucket[k].kind = "json")
              => bucket'[k] = bucket[k]]_vars

\* C29: every stored API token is owned by a row of table users, also when
\* an issueToken runs while an administrator deletes the user.
C29_TokensHaveOwners ==
    \A t \in api_tokens : t.username \in DOMAIN users

====
